---- MODULE Spec2Model ----
(***************************************************************************)
(* The Redis-backed message queue of scraper/pkg/queue: Send, Subscribe    *)
(* (delivery goroutine and context watcher goroutine), and the consumer    *)
(* reading the per-subscription channel.                                   *)
(*                                                                         *)
(* Go strings and []byte are sequences of bytes (0..255).  The wire        *)
(* format is what encoding/json produces for the Message struct.           *)
(***************************************************************************)
EXTENDS Integers, Sequences, FiniteSets, TLC

\* ------------------------------------------------------------------ bounds
\* number of payloads the broker accepts in one run (Send and foreign publishers)
MaxPublish == 3
\* number of payloads the broker accepts in the runs with two subscriptions
MaxFanOut == 1
\* capacity of msgChan; the program uses 100 (redis.go:84), the model a small
\* value so that the full buffer and the timed-out send are reached
MsgChanCap == 1
\* calls of the queue whose results the caller keeps, per behaviour
MaxCalls == 2

\* the Subscribe calls the model follows, in the order they are made
Subs == {1, 2}
Topics == {"T1", "T2"}
Ctxs == {"ctxA", "ctxB"}

\* ------------------------------------------------------- bytes and strings
\* U+FFFD, the Unicode replacement rune, in UTF-8
ReplacementRune == <<239, 191, 189>>

\* The strings of the model are built from 'a' (97), 'b' (98) and the byte
\* 0xFF, which is never part of a valid UTF-8 encoding.
ValidByte(b) == b < 128

\* encoding/json writes a string coerced to valid UTF-8: every invalid byte
\* becomes the replacement rune.
RECURSIVE ToValidUTF8(_)
ToValidUTF8(s) ==
    IF s = <<>> THEN <<>>
    ELSE (IF ValidByte(Head(s)) THEN <<Head(s)>> ELSE ReplacementRune)
         \o ToValidUTF8(Tail(s))

\* byte-wise order of Go strings
RECURSIVE StrLess(_, _)
StrLess(a, b) ==
    IF b = <<>> THEN FALSE
    ELSE IF a = <<>> THEN TRUE
    ELSE IF Head(a) # Head(b) THEN Head(a) < Head(b)
    ELSE StrLess(Tail(a), Tail(b))

\* the keys of a map in the order encoding/json writes them
RECURSIVE SortedKeys(_)
SortedKeys(S) ==
    IF S = {} THEN <<>>
    ELSE LET k == CHOOSE x \in S : \A y \in S \ {x} : StrLess(x, y)
         IN <<k>> \o SortedKeys(S \ {k})

\* ------------------------------------------------------------------ base64
\* 64 stands for the padding character '='
Pad == 64

RECURSIVE Base64Encode(_)
Base64Encode(b) ==
    IF Len(b) = 0 THEN <<>>
    ELSE IF Len(b) = 1 THEN
        <<b[1] \div 4, (b[1] % 4) * 16, Pad, Pad>>
    ELSE IF Len(b) = 2 THEN
        <<b[1] \div 4, (b[1] % 4) * 16 + b[2] \div 16, (b[2] % 16) * 4, Pad>>
    ELSE
        <<b[1] \div 4, (b[1] % 4) * 16 + b[2] \div 16,
          (b[2] % 16) * 4 + b[3] \div 64, b[3] % 64>>
        \o Base64Encode(SubSeq(b, 4, Len(b)))

RECURSIVE Base64Decode(_)
Base64Decode(s) ==
    IF Len(s) < 4 THEN <<>>
    ELSE (IF s[3] = Pad THEN <<s[1] * 4 + s[2] \div 16>>
          ELSE IF s[4] = Pad THEN
              <<s[1] * 4 + s[2] \div 16, (s[2] % 16) * 16 + s[3] \div 4>>
          ELSE
              <<s[1] * 4 + s[2] \div 16, (s[2] % 16) * 16 + s[3] \div 4,
                (s[3] % 4) * 64 + s[4]>>)
         \o Base64Decode(SubSeq(s, 5, Len(s)))

\* ----------------------------------------------------------------- Message
\* Body: a nil slice or a byte sequence.  Metadata: a nil map or a function
\* from strings to strings.  Timestamp: the wall clock reading (0 is the zero
\* time) and whether the value carries a monotonic clock reading.
NilBody == [nil |-> TRUE, b |-> <<>>]
Bytes(b) == [nil |-> FALSE, b |-> b]
NilMap == [nil |-> TRUE, m |-> <<>>]
Map(f) == [nil |-> FALSE, m |-> f]
ZeroTime == [wall |-> 0, mono |-> FALSE]
\* the largest wall clock reading whose year is within 0..9999
MaxWall == 9
\* a time whose year is beyond 9999
FarFuture == [wall |-> MaxWall + 1, mono |-> FALSE]

Message(id, body, ts, md) == [ID |-> id, Body |-> body, Timestamp |-> ts, Metadata |-> md]

IsZero(t) == t.wall = 0

\* ---------------------------------------------------------- json.Marshal
\* Time.MarshalJSON fails for a year outside 0..9999; nothing else in a
\* Message can fail to encode.
MarshalFails(m) == m.Timestamp.wall > MaxWall

\* a JSON object member list: the entries sorted by key, strings coerced
MarshalMap(md) ==
    IF md.nil THEN [null |-> TRUE, members |-> <<>>]
    ELSE LET ks == SortedKeys(DOMAIN md.m)
         IN [null |-> FALSE,
             members |-> [i \in 1..Len(ks) |->
                            <<ToValidUTF8(ks[i]), ToValidUTF8(md.m[ks[i]])>>]]

MarshalBody(body) ==
    IF body.nil THEN [null |-> TRUE, b64 |-> <<>>]
    ELSE [null |-> FALSE, b64 |-> Base64Encode(body.b)]

\* the payload published for message m; RFC 3339 text keeps the wall clock
\* reading and drops the monotonic one
Marshal(m) ==
    [json |-> TRUE,
     ID |-> ToValidUTF8(m.ID),
     Body |-> MarshalBody(m.Body),
     Timestamp |-> m.Timestamp.wall,
     Metadata |-> MarshalMap(m.Metadata)]

\* a payload of a foreign publisher that is not the JSON of a Message
Garbage ==
    [json |-> FALSE, ID |-> <<>>, Body |-> [null |-> TRUE, b64 |-> <<>>],
     Timestamp |-> 0, Metadata |-> [null |-> TRUE, members |-> <<>>]]

\* -------------------------------------------------------- json.Unmarshal
UnmarshalFails(p) == ~p.json

\* later members overwrite earlier ones with the same key
RECURSIVE MembersToMap(_)
MembersToMap(ms) ==
    IF ms = <<>> THEN <<>>
    ELSE LET rest == MembersToMap(SubSeq(ms, 1, Len(ms) - 1))
             last == ms[Len(ms)]
         IN [k \in DOMAIN rest \cup {last[1]} |->
               IF k = last[1] THEN last[2] ELSE rest[k]]

UnmarshalMap(j) == IF j.null THEN NilMap ELSE Map(MembersToMap(j.members))

UnmarshalBody(j) == IF j.null THEN NilBody ELSE Bytes(Base64Decode(j.b64))

Unmarshal(p) ==
    Message(p.ID, UnmarshalBody(p.Body),
            [wall |-> p.Timestamp, mono |-> FALSE], UnmarshalMap(p.Metadata))


\* ------------------------------------------------------------------- state
VARIABLES
    ctxDone,      \* ctxDone[c]: context c has been cancelled
    log,          \* every payload the broker accepted, in order, with its topic
    subSt,        \* subSt[s]: "idle" (call not made), "active" (Subscribe
                  \*   returned the stream), "failed" (Subscribe returned an error)
    topicOf,      \* topic of subscription s
    ctxOf,        \* context passed to Subscribe call s
    emitted,      \* emitted[s]: indices into log of the payloads the broker put
                  \*   on the pubsub channel of s, in order
    rcvd,         \* rcvd[s]: how many of emitted[s] the delivery goroutine took
    chanClosed,   \* the pubsub channel of s was closed by the broker side
    pubsubUnsub,  \* pubsub.Unsubscribe was called for s
    pubsubClosed, \* pubsub.Close was called for s
    done,         \* the done channel of s is closed
    wpc,          \* watcher goroutine of s: "none", "wait", "exit"
    dpc,          \* delivery goroutine of s: "none", "select", "send", "exit"
    exitBy,       \* how the delivery goroutine of s returned
    cur,          \* the decoded message the delivery goroutine of s holds
    msgChan,      \* content of the buffered channel msgChan of s
    closeCount,   \* number of close(msgChan) executed for s
    dropped,      \* indices of the payloads s gave up on after the timeout
    received,     \* what the consumer of s has taken from msgChan, in order
    subConfirmed, \* pubsub.Receive of the Subscribe call s returned without error
    clientClosed, \* the connection pool of q.client is closed
    released,     \* number of times the connection pool was released
    ret           \* the result of the last call whose result the caller kept

vars == <<ctxDone, log, subSt, topicOf, ctxOf, emitted, rcvd, chanClosed,
          pubsubUnsub, pubsubClosed, done, wpc, dpc, exitBy, cur, msgChan,
          closeCount, dropped, received, subConfirmed, clientClosed, released,
          ret>>

brokerVars == <<emitted, rcvd, chanClosed, pubsubUnsub, pubsubClosed>>
taskVars == <<done, wpc, dpc, exitBy, cur, msgChan, closeCount, dropped>>
callVars == <<subSt, topicOf, ctxOf, subConfirmed>>
clientVars == <<clientClosed, released, ret>>

\* the methods of the queue whose results callers keep
Ops == {"Send", "Unsubscribe", "Ack", "Close"}

NoMsg == [idx |-> 0, msg |-> Message(<<>>, NilBody, ZeroTime, NilMap)]

\* the messages producers pass to Send
\* no ID, no timestamp, as the scrapers and the tests send
TestMessage == Message(<<>>, Bytes(<<104, 105>>), ZeroTime, Map((<<97>> :> <<98>>)))

MsgInputs ==
    { TestMessage,
      \* ID and timestamp set by the caller, nil body and metadata
      Message(<<97>>, NilBody, [wall |-> 5, mono |-> FALSE], NilMap),
      \* a metadata value that is not valid UTF-8
      Message(<<>>, Bytes(<<255>>), ZeroTime, Map((<<97>> :> <<255>>))),
      \* a timestamp that cannot be encoded
      Message(<<98>>, Bytes(<<>>), FarFuture, NilMap) }

\* the messages passed to Send by the callers that keep its result: also
\* those with only one of ID and timestamp set
CallInputs ==
    MsgInputs \cup
    { Message(<<99>>, Bytes(<<104>>), ZeroTime, NilMap),
      Message(<<>>, NilBody, [wall |-> 7, mono |-> FALSE], Map((<<97>> :> <<98>>))) }

\* the message IDs passed to Ack: one that callers of Send set, one that
\* no message has
AckIDs == {<<97>>, <<122>>}

Init ==
    /\ ctxDone = [c \in Ctxs |-> FALSE]
    /\ log = <<>>
    /\ subSt = [s \in Subs |-> "idle"]
    /\ topicOf = [s \in Subs |-> "T1"]
    /\ ctxOf = [s \in Subs |-> "ctxA"]
    /\ emitted = [s \in Subs |-> <<>>]
    /\ rcvd = [s \in Subs |-> 0]
    /\ chanClosed = [s \in Subs |-> FALSE]
    /\ pubsubUnsub = [s \in Subs |-> FALSE]
    /\ pubsubClosed = [s \in Subs |-> FALSE]
    /\ done = [s \in Subs |-> FALSE]
    /\ wpc = [s \in Subs |-> "none"]
    /\ dpc = [s \in Subs |-> "none"]
    /\ exitBy = [s \in Subs |-> "none"]
    /\ cur = [s \in Subs |-> NoMsg]
    /\ msgChan = [s \in Subs |-> <<>>]
    /\ closeCount = [s \in Subs |-> 0]
    /\ dropped = [s \in Subs |-> {}]
    /\ received = [s \in Subs |-> <<>>]
    /\ subConfirmed = [s \in Subs |-> FALSE]
    /\ clientClosed = FALSE
    /\ released = 0
    /\ ret = [op |-> "none", err |-> "nil", topic |-> "T1", arg |-> NoMsg.msg,
              enc |-> NoMsg.msg, attempts |-> 0, count |-> [o \in Ops |-> 0]]

\* the Subscribe call s returned a stream
Active(s) == subSt[s] = "active"

\* ------------------------------------------------------------------ broker
\* Listeners of a broker that delivers every payload to every subscription
Listeners_AnyTopic(t) ==
    {s \in Subs : /\ subSt[s] = "active"
                  /\ ~pubsubUnsub[s] /\ ~pubsubClosed[s] /\ ~chanClosed[s]
                  /\ dpc[s] # "exit"}

\* the subscriptions the broker delivers a payload on topic t to: confirmed,
\* not unsubscribed, connection alive, and still read by a delivery goroutine
Listeners(t) ==
    {s \in Subs : /\ subSt[s] = "active"
                  /\ topicOf[s] = t
                  /\ ~pubsubUnsub[s] /\ ~pubsubClosed[s] /\ ~chanClosed[s]
                  /\ dpc[s] # "exit"}

\* PUBLISH: the payload goes to every listener of the topic; the broker
\* keeps nothing, so a payload nobody listens for leaves no trace
Publish(t, p, orig) ==
    IF Listeners(t) = {} \/ Len(log) >= MaxPublish
    THEN UNCHANGED <<log, emitted>>
    ELSE /\ log' = Append(log, [topic |-> t, payload |-> p, orig |-> orig,
                                cancelled |-> {c \in Ctxs : ctxDone[c]}])
         /\ emitted' = [s \in Subs |->
                          IF s \in Listeners(t) THEN Append(emitted[s], Len(log) + 1)
                          ELSE emitted[s]]

\* a publisher outside this program publishes something that is no Message
ForeignPublish(t) ==
    /\ Publish(t, Garbage, NoMsg.msg)
    /\ UNCHANGED <<clientVars, ctxDone, callVars, rcvd, chanClosed, pubsubUnsub, pubsubClosed,
                   taskVars, received>>

\* the connection of the subscription is lost: go-redis closes the channel
BrokerClose(s) ==
    /\ subSt[s] = "active" /\ ~chanClosed[s] /\ ~pubsubClosed[s]
    /\ chanClosed' = [chanClosed EXCEPT ![s] = TRUE]
    /\ UNCHANGED <<clientVars, ctxDone, log, callVars, emitted, rcvd, pubsubUnsub,
                   pubsubClosed, taskVars, received>>

\* --------------------------------------------------------------- RedisQueue
\* time.Now(): the clock advances with every delivered publish
Now == [wall |-> Len(log) + 1, mono |-> TRUE]

\* uuid.New().String(): an ASCII string no caller passes
NewUUID == <<48 + Len(log)>>

\* Filled that stamps every message with the current time
Filled_AlwaysStamps(m) ==
    [m EXCEPT !.ID = IF m.ID = <<>> THEN NewUUID ELSE m.ID,
              !.Timestamp = Now]

\* the message Send encodes: ID and Timestamp filled in when absent
Filled(m) ==
    [m EXCEPT !.ID = IF m.ID = <<>> THEN NewUUID ELSE m.ID,
              !.Timestamp = IF IsZero(m.Timestamp) THEN Now ELSE m.Timestamp]

\* the number of calls whose results were kept
NCalls == ret.count["Send"] + ret.count["Unsubscribe"] + ret.count["Ack"]
          + ret.count["Close"]

\* what the caller of op gets back and keeps
Result(op, err, t, m, enc, attempts) ==
    [op |-> op, err |-> err, topic |-> t, arg |-> m, enc |-> enc,
     attempts |-> attempts, count |-> [ret.count EXCEPT ![op] = @ + 1]]

\* the error Send returns: "failed to marshal message", "failed to publish
\* message", or nil
SendErr(m, publishOk) ==
    IF MarshalFails(Filled(m)) THEN "marshal"
    ELSE IF ~publishOk THEN "publish"
    ELSE "nil"

\* Send whose message reaches the broker although it returns the error of
\* client.Publish
Send_PublishedDespiteError(c, t, m, publishOk, keep) ==
    /\ publishOk => ~ctxDone[c] /\ ~clientClosed
    /\ keep => NCalls < MaxCalls
    /\ IF MarshalFails(Filled(m))
       THEN UNCHANGED <<log, emitted>>
       ELSE Publish(t, Marshal(Filled(m)), m)
    /\ ret' = IF keep
              THEN Result("Send", SendErr(m, publishOk), t, m, Filled(m),
                          IF MarshalFails(Filled(m)) THEN 0 ELSE 1)
              ELSE ret
    /\ UNCHANGED <<clientClosed, released, ctxDone, callVars, rcvd, chanClosed,
                   pubsubUnsub, pubsubClosed, taskVars, received>>

\* Send(ctx, topic, message); publishOk is the outcome of client.Publish,
\* which fails when ctx is cancelled or the connection pool is closed; keep
\* says whether the caller keeps the result
Send(c, t, m, publishOk, keep) ==
    /\ publishOk => ~ctxDone[c] /\ ~clientClosed
    /\ keep => NCalls < MaxCalls
    /\ IF SendErr(m, publishOk) # "nil"
       THEN UNCHANGED <<log, emitted>>
       ELSE Publish(t, Marshal(Filled(m)), m)
    /\ ret' = IF keep
              THEN Result("Send", SendErr(m, publishOk), t, m, Filled(m),
                          IF MarshalFails(Filled(m)) THEN 0 ELSE 1)
              ELSE ret
    /\ UNCHANGED <<clientClosed, released, ctxDone, callVars, rcvd, chanClosed,
                   pubsubUnsub, pubsubClosed, taskVars, received>>

\* Subscribe that starts the two goroutines before it waits for the
\* confirmation
Subscribe_GoroutinesBeforeConfirm(s, c, t, confirmed) ==
    /\ subSt[s] = "idle"
    /\ confirmed => ~ctxDone[c] /\ ~clientClosed
    /\ \A r \in Subs : r < s => subSt[r] # "idle"
    /\ topicOf' = [topicOf EXCEPT ![s] = t]
    /\ ctxOf' = [ctxOf EXCEPT ![s] = c]
    /\ subConfirmed' = [subConfirmed EXCEPT ![s] = confirmed]
    /\ dpc' = [dpc EXCEPT ![s] = "select"]
    /\ wpc' = [wpc EXCEPT ![s] = "wait"]
    /\ IF confirmed
       THEN /\ subSt' = [subSt EXCEPT ![s] = "active"]
            /\ UNCHANGED pubsubClosed
       ELSE /\ subSt' = [subSt EXCEPT ![s] = "failed"]
            /\ pubsubClosed' = [pubsubClosed EXCEPT ![s] = TRUE]
    /\ UNCHANGED <<clientVars, ctxDone, log, emitted, rcvd, chanClosed, pubsubUnsub,
                   done, exitBy, cur, msgChan, closeCount, dropped, received>>

\* Subscribe(ctx, topic); confirmed is the outcome of pubsub.Receive, which
\* dials the connection of the pubsub with ctx and fails when ctx is cancelled
\* or the connection pool is closed
Subscribe(s, c, t, confirmed) ==
    /\ subSt[s] = "idle"
    /\ confirmed => ~ctxDone[c] /\ ~clientClosed
    /\ \A r \in Subs : r < s => subSt[r] # "idle"
    /\ topicOf' = [topicOf EXCEPT ![s] = t]
    /\ ctxOf' = [ctxOf EXCEPT ![s] = c]
    /\ subConfirmed' = [subConfirmed EXCEPT ![s] = confirmed]
    /\ IF confirmed
       THEN /\ subSt' = [subSt EXCEPT ![s] = "active"]
            /\ dpc' = [dpc EXCEPT ![s] = "select"]
            /\ wpc' = [wpc EXCEPT ![s] = "wait"]
            /\ UNCHANGED pubsubClosed
       ELSE /\ subSt' = [subSt EXCEPT ![s] = "failed"]
            /\ pubsubClosed' = [pubsubClosed EXCEPT ![s] = TRUE]
            /\ UNCHANGED <<dpc, wpc>>
    /\ UNCHANGED <<clientVars, ctxDone, log, emitted, rcvd, chanClosed, pubsubUnsub,
                   done, exitBy, cur, msgChan, closeCount, dropped, received>>

\* Unsubscribe that stops the subscriptions on the topic
Unsubscribe_SetsStop(t) ==
    /\ NCalls < MaxCalls
    /\ ret' = Result("Unsubscribe", "nil", t, NoMsg.msg, NoMsg.msg, 0)
    /\ done' = [s \in Subs |-> done[s] \/ (Active(s) /\ topicOf[s] = t)]
    /\ UNCHANGED <<clientClosed, released, ctxDone, log, callVars, brokerVars, wpc,
                   dpc, exitBy, cur, msgChan, closeCount, dropped, received>>

\* Unsubscribe that unsubscribes the pubsubs on the topic
Unsubscribe_DropsSubscriptions(t) ==
    /\ NCalls < MaxCalls
    /\ ret' = Result("Unsubscribe", "nil", t, NoMsg.msg, NoMsg.msg, 0)
    /\ pubsubUnsub' = [s \in Subs |-> pubsubUnsub[s] \/ (Active(s) /\ topicOf[s] = t)]
    /\ UNCHANGED <<clientClosed, released, ctxDone, log, callVars, emitted, rcvd,
                   chanClosed, pubsubClosed, taskVars, received>>

\* Unsubscribe(ctx, topic): logs and returns nil
Unsubscribe(t) ==
    /\ NCalls < MaxCalls
    /\ ret' = Result("Unsubscribe", "nil", t, NoMsg.msg, NoMsg.msg, 0)
    /\ UNCHANGED <<clientClosed, released, ctxDone, log, callVars, brokerVars,
                   taskVars, received>>

\* Ack that takes the acknowledged message out of the output buffers
Ack_RemovesFromBuffer(t, id) ==
    /\ NCalls < MaxCalls
    /\ ret' = Result("Ack", "nil", t, [NoMsg.msg EXCEPT !.ID = id], NoMsg.msg, 0)
    /\ msgChan' = [s \in Subs |-> SelectSeq(msgChan[s], LAMBDA x : x.msg.ID # id)]
    /\ UNCHANGED <<clientClosed, released, ctxDone, log, callVars, brokerVars, done,
                   wpc, dpc, exitBy, cur, closeCount, dropped, received>>

\* Ack(ctx, topic, messageID): logs and returns nil; the result keeps the
\* messageID in the ID of its arg
Ack(t, id) ==
    /\ NCalls < MaxCalls
    /\ ret' = Result("Ack", "nil", t, [NoMsg.msg EXCEPT !.ID = id], NoMsg.msg, 0)
    /\ UNCHANGED <<clientClosed, released, ctxDone, log, callVars, brokerVars,
                   taskVars, received>>

\* Close whose every call releases the connection pool
Close_ReleasesEveryTime(closeOk) ==
    /\ NCalls < MaxCalls
    /\ clientClosed' = TRUE
    /\ released' = released + 1
    /\ ret' = Result("Close", IF clientClosed \/ ~closeOk THEN "close" ELSE "nil",
                     "T1", NoMsg.msg, NoMsg.msg, 0)
    /\ UNCHANGED <<ctxDone, log, callVars, brokerVars, taskVars, received>>

\* Close(): q.client.Close() closes the connection pool, which releases its
\* connections the first time and answers every later call with an error;
\* closeOk is the outcome of closing the connections
Close(closeOk) ==
    /\ NCalls < MaxCalls
    /\ clientClosed' = TRUE
    /\ released' = IF clientClosed THEN released ELSE released + 1
    /\ ret' = Result("Close", IF clientClosed \/ ~closeOk THEN "close" ELSE "nil",
                     "T1", NoMsg.msg, NoMsg.msg, 0)
    /\ UNCHANGED <<ctxDone, log, callVars, brokerVars, taskVars, received>>

\* the owner of context c cancels it
Cancel(c) ==
    /\ ~ctxDone[c]
    /\ ctxDone' = [ctxDone EXCEPT ![c] = TRUE]
    /\ UNCHANGED <<clientVars, log, callVars, brokerVars, taskVars, received>>

\* Watcher that returns without closing done
Watcher_NoClose(s) ==
    /\ wpc[s] = "wait"
    /\ ctxDone[ctxOf[s]]
    /\ wpc' = [wpc EXCEPT ![s] = "exit"]
    /\ UNCHANGED <<clientVars, ctxDone, log, callVars, brokerVars, done, dpc, exitBy, cur, msgChan,
                   closeCount, dropped, received>>

\* Watcher that waits for the cancellation of any context
Watcher_AnyContext(s) ==
    /\ wpc[s] = "wait"
    /\ \E c \in Ctxs : ctxDone[c]
    /\ done' = [done EXCEPT ![s] = TRUE]
    /\ wpc' = [wpc EXCEPT ![s] = "exit"]
    /\ UNCHANGED <<clientVars, ctxDone, log, callVars, brokerVars, dpc, exitBy, cur,
                   msgChan, closeCount, dropped, received>>

\* Watcher that closes the stream itself when the context is cancelled
Watcher_ClosesStream(s) ==
    /\ wpc[s] = "wait"
    /\ ctxDone[ctxOf[s]]
    /\ done' = [done EXCEPT ![s] = TRUE]
    /\ wpc' = [wpc EXCEPT ![s] = "exit"]
    /\ closeCount' = [closeCount EXCEPT ![s] = @ + 1]
    /\ UNCHANGED <<clientVars, ctxDone, log, callVars, brokerVars, dpc, exitBy, cur,
                   msgChan, dropped, received>>

\* watcher goroutine: <-ctx.Done(); close(done)
Watcher(s) ==
    /\ wpc[s] = "wait"
    /\ ctxDone[ctxOf[s]]
    /\ done' = [done EXCEPT ![s] = TRUE]
    /\ wpc' = [wpc EXCEPT ![s] = "exit"]
    /\ UNCHANGED <<clientVars, ctxDone, log, callVars, brokerVars, dpc, exitBy, cur, msgChan,
                   closeCount, dropped, received>>


\* ------------------------------------------------------ delivery goroutine
\* the pubsub channel of s holds a payload the goroutine has not taken
ChannelReady(s) == rcvd[s] < Len(emitted[s])

\* Return with a deferred function that closes msgChan only when there was
\* no panic to recover
Return_NoCloseAfterPanic(s, how) ==
    /\ dpc' = [dpc EXCEPT ![s] = "exit"]
    /\ exitBy' = [exitBy EXCEPT ![s] = how]
    /\ closeCount' = [closeCount EXCEPT ![s] = IF how = "panic" THEN @ ELSE @ + 1]
    /\ cur' = [cur EXCEPT ![s] = NoMsg]

\* the deferred function: recover, close(msgChan)
Return(s, how) ==
    /\ dpc' = [dpc EXCEPT ![s] = "exit"]
    /\ exitBy' = [exitBy EXCEPT ![s] = how]
    /\ closeCount' = [closeCount EXCEPT ![s] = @ + 1]
    /\ cur' = [cur EXCEPT ![s] = NoMsg]

\* outer select, case <-done: unsubscribe, close the pubsub, return
DeliveryStop(s) ==
    /\ dpc[s] = "select"
    /\ done[s]
    /\ pubsubUnsub' = [pubsubUnsub EXCEPT ![s] = TRUE]
    /\ pubsubClosed' = [pubsubClosed EXCEPT ![s] = TRUE]
    /\ Return(s, "stop")
    /\ UNCHANGED <<clientVars, ctxDone, log, callVars, emitted, rcvd, chanClosed, done, wpc,
                   msgChan, dropped, received>>

\* DeliveryReceive that returns when a payload does not decode
DeliveryReceive_ReturnOnBadPayload(s) ==
    /\ dpc[s] = "select"
    /\ ChannelReady(s)
    /\ rcvd' = [rcvd EXCEPT ![s] = @ + 1]
    /\ LET i == emitted[s][rcvd[s] + 1]
           p == log[i].payload
       IN IF UnmarshalFails(p)
          THEN Return(s, "closed")
          ELSE /\ dpc' = [dpc EXCEPT ![s] = "send"]
               /\ cur' = [cur EXCEPT ![s] = [idx |-> i, msg |-> Unmarshal(p)]]
               /\ UNCHANGED <<exitBy, closeCount>>
    /\ UNCHANGED <<clientVars, ctxDone, log, callVars, emitted, chanClosed, pubsubUnsub,
                   pubsubClosed, done, wpc, msgChan, dropped, received>>

\* DeliveryReceive that decodes the head of the channel without taking it
DeliveryReceive_NoAdvance(s) ==
    /\ dpc[s] = "select"
    /\ ChannelReady(s)
    /\ LET i == emitted[s][rcvd[s] + 1]
           p == log[i].payload
       IN IF UnmarshalFails(p)
          THEN /\ rcvd' = [rcvd EXCEPT ![s] = @ + 1]
               /\ UNCHANGED <<dpc, cur>>
          ELSE /\ dpc' = [dpc EXCEPT ![s] = "send"]
               /\ cur' = [cur EXCEPT ![s] = [idx |-> i, msg |-> Unmarshal(p)]]
               /\ UNCHANGED rcvd
    /\ UNCHANGED <<clientVars, ctxDone, log, callVars, emitted, chanClosed, pubsubUnsub,
                   pubsubClosed, done, wpc, exitBy, msgChan, closeCount, dropped,
                   received>>

\* outer select, case msg, ok := <-channel with ok: decode; a payload that
\* does not decode is logged and skipped
DeliveryReceive(s) ==
    /\ dpc[s] = "select"
    /\ ChannelReady(s)
    /\ rcvd' = [rcvd EXCEPT ![s] = @ + 1]
    /\ LET i == emitted[s][rcvd[s] + 1]
           p == log[i].payload
       IN IF UnmarshalFails(p)
          THEN UNCHANGED <<dpc, cur>>
          ELSE /\ dpc' = [dpc EXCEPT ![s] = "send"]
               /\ cur' = [cur EXCEPT ![s] = [idx |-> i, msg |-> Unmarshal(p)]]
    /\ UNCHANGED <<clientVars, ctxDone, log, callVars, emitted, chanClosed, pubsubUnsub,
                   pubsubClosed, done, wpc, exitBy, msgChan, closeCount, dropped,
                   received>>

\* DeliveryChannelClosed that unsubscribes and closes the pubsub
DeliveryChannelClosed_ReleasesPubsub(s) ==
    /\ dpc[s] = "select"
    /\ chanClosed[s] /\ ~ChannelReady(s)
    /\ pubsubUnsub' = [pubsubUnsub EXCEPT ![s] = TRUE]
    /\ pubsubClosed' = [pubsubClosed EXCEPT ![s] = TRUE]
    /\ Return(s, "closed")
    /\ UNCHANGED <<clientVars, ctxDone, log, callVars, emitted, rcvd, chanClosed, done,
                   wpc, msgChan, dropped, received>>

\* outer select, case msg, ok := <-channel with !ok: return
DeliveryChannelClosed(s) ==
    /\ dpc[s] = "select"
    /\ chanClosed[s] /\ ~ChannelReady(s)
    /\ Return(s, "closed")
    /\ UNCHANGED <<clientVars, ctxDone, log, callVars, brokerVars, done, wpc, msgChan,
                   dropped, received>>

\* DeliveryHandOver into one channel shared by all subscriptions
DeliveryHandOver_SharedBuffer(s) ==
    /\ dpc[s] = "send"
    /\ Len(msgChan[1]) < MsgChanCap
    /\ msgChan' = [msgChan EXCEPT ![1] = Append(@, cur[s])]
    /\ dpc' = [dpc EXCEPT ![s] = "select"]
    /\ cur' = [cur EXCEPT ![s] = NoMsg]
    /\ UNCHANGED <<clientVars, ctxDone, log, callVars, brokerVars, done, wpc, exitBy,
                   closeCount, dropped, received>>

\* DeliveryHandOver into a channel without a capacity
DeliveryHandOver_Unbounded(s) ==
    /\ dpc[s] = "send"
    /\ msgChan' = [msgChan EXCEPT ![s] = Append(@, cur[s])]
    /\ dpc' = [dpc EXCEPT ![s] = "select"]
    /\ cur' = [cur EXCEPT ![s] = NoMsg]
    /\ UNCHANGED <<clientVars, ctxDone, log, callVars, brokerVars, done, wpc, exitBy,
                   closeCount, dropped, received>>

\* inner select, case msgChan <- message
DeliveryHandOver(s) ==
    /\ dpc[s] = "send"
    /\ Len(msgChan[s]) < MsgChanCap
    /\ msgChan' = [msgChan EXCEPT ![s] = Append(@, cur[s])]
    /\ dpc' = [dpc EXCEPT ![s] = "select"]
    /\ cur' = [cur EXCEPT ![s] = NoMsg]
    /\ UNCHANGED <<clientVars, ctxDone, log, callVars, brokerVars, done, wpc, exitBy,
                   closeCount, dropped, received>>

\* DeliveryStopWhileSending that still puts the message in hand into the
\* buffer before it returns
DeliveryStopWhileSending_DeliversFirst(s) ==
    /\ dpc[s] = "send"
    /\ done[s]
    /\ msgChan' = [msgChan EXCEPT ![s] = Append(@, cur[s])]
    /\ Return(s, "stopSending")
    /\ UNCHANGED <<clientVars, ctxDone, log, callVars, brokerVars, done, wpc,
                   dropped, received>>

\* inner select, case <-done: return
DeliveryStopWhileSending(s) ==
    /\ dpc[s] = "send"
    /\ done[s]
    /\ Return(s, "stopSending")
    /\ UNCHANGED <<clientVars, ctxDone, log, callVars, brokerVars, done, wpc, msgChan,
                   dropped, received>>

\* DeliveryTimeout that logs the timeout and goes on waiting
DeliveryTimeout_KeepsWaiting(s) ==
    /\ dpc[s] = "send"
    /\ Len(msgChan[s]) = MsgChanCap
    /\ ~done[s]
    /\ cur[s].idx \notin dropped[s]
    /\ dropped' = [dropped EXCEPT ![s] = @ \cup {cur[s].idx}]
    /\ UNCHANGED <<clientVars, ctxDone, log, callVars, brokerVars, done, wpc, dpc, exitBy, cur,
                   msgChan, closeCount, received>>

\* DeliveryTimeout after which the goroutine gives up and returns
DeliveryTimeout_EndsGoroutine(s) ==
    /\ dpc[s] = "send"
    /\ Len(msgChan[s]) = MsgChanCap
    /\ ~done[s]
    /\ dropped' = [dropped EXCEPT ![s] = @ \cup {cur[s].idx}]
    /\ Return(s, "closed")
    /\ UNCHANGED <<clientVars, ctxDone, log, callVars, brokerVars, done, wpc, msgChan,
                   received>>

\* inner select, case <-time.After(1 * time.Second): the goroutine stayed
\* blocked for a second, so the buffer was full and done open all that time
DeliveryTimeout(s) ==
    /\ dpc[s] = "send"
    /\ Len(msgChan[s]) = MsgChanCap
    /\ ~done[s]
    /\ dropped' = [dropped EXCEPT ![s] = @ \cup {cur[s].idx}]
    /\ dpc' = [dpc EXCEPT ![s] = "select"]
    /\ cur' = [cur EXCEPT ![s] = NoMsg]
    /\ UNCHANGED <<clientVars, ctxDone, log, callVars, brokerVars, done, wpc, exitBy, msgChan,
                   closeCount, received>>

\* DeliveryPanic without the deferred recover: the panic ends the process,
\* and with it the goroutines of every subscription
DeliveryPanic_Unrecovered(s) ==
    /\ dpc[s] \in {"select", "send"}
    /\ dpc' = [r \in Subs |-> IF dpc[r] = "none" THEN "none" ELSE "exit"]
    /\ wpc' = [r \in Subs |-> IF wpc[r] = "none" THEN "none" ELSE "exit"]
    /\ exitBy' = [exitBy EXCEPT ![s] = "panic"]
    /\ UNCHANGED <<clientVars, ctxDone, log, callVars, brokerVars, done, cur, msgChan,
                   closeCount, dropped, received>>

\* DeliveryPanic after which the loop is started again
DeliveryPanic_Restarts(s) ==
    /\ dpc[s] \in {"select", "send"}
    /\ dpc' = [dpc EXCEPT ![s] = "select"]
    /\ exitBy' = [exitBy EXCEPT ![s] = "panic"]
    /\ closeCount' = [closeCount EXCEPT ![s] = IF @ = 0 THEN 1 ELSE @]
    /\ cur' = [cur EXCEPT ![s] = NoMsg]
    /\ UNCHANGED <<clientVars, ctxDone, log, callVars, brokerVars, done, wpc, msgChan,
                   dropped, received>>

\* a panic anywhere in the goroutine: the deferred function recovers it
DeliveryPanic(s) ==
    /\ dpc[s] \in {"select", "send"}
    /\ Return(s, "panic")
    /\ UNCHANGED <<clientVars, ctxDone, log, callVars, brokerVars, done, wpc, msgChan,
                   dropped, received>>

\* ---------------------------------------------------------------- consumer
\* ConsumerReceive from a channel whose close discards what is buffered
ConsumerReceive_NothingAfterClose(s) ==
    /\ msgChan[s] # <<>>
    /\ closeCount[s] = 0
    /\ received' = [received EXCEPT ![s] = Append(@, Head(msgChan[s]))]
    /\ msgChan' = [msgChan EXCEPT ![s] = Tail(@)]
    /\ UNCHANGED <<clientVars, ctxDone, log, callVars, brokerVars, done, wpc, dpc,
                   exitBy, cur, closeCount, dropped>>

\* the consumer takes the next message from the stream
ConsumerReceive(s) ==
    /\ msgChan[s] # <<>>
    /\ received' = [received EXCEPT ![s] = Append(@, Head(msgChan[s]))]
    /\ msgChan' = [msgChan EXCEPT ![s] = Tail(@)]
    /\ UNCHANGED <<clientVars, ctxDone, log, callVars, brokerVars, done, wpc, dpc, exitBy,
                   cur, closeCount, dropped>>

\* ----------------------------------------------------------- specification
DeliveryStep(s) ==
    \/ DeliveryStop(s)
    \/ DeliveryReceive(s)
    \/ DeliveryChannelClosed(s)
    \/ DeliveryHandOver(s)
    \/ DeliveryStopWhileSending(s)
    \/ DeliveryTimeout(s)

\* the broker, the contexts, the goroutines and the consumers of the
\* Subscribe calls SS on the topics TT with the contexts CC, where no
\* hand-over waits for a second
NoWait(SS, TT, CC) ==
    \/ \E t \in TT : ForeignPublish(t)
    \/ \E s \in SS, c \in CC, t \in TT, ok \in BOOLEAN : Subscribe(s, c, t, ok)
    \/ \E c \in CC : Cancel(c)
    \/ \E s \in SS : BrokerClose(s)
    \/ \E s \in SS : Watcher(s)
    \/ \E s \in SS : DeliveryStop(s)
    \/ \E s \in SS : DeliveryReceive(s)
    \/ \E s \in SS : DeliveryChannelClosed(s)
    \/ \E s \in SS : DeliveryHandOver(s)
    \/ \E s \in SS : DeliveryStopWhileSending(s)
    \/ \E s \in SS : DeliveryPanic(s)
    \/ \E s \in SS : ConsumerReceive(s)

\* the same with the hand-overs that time out
Subscriptions(SS, TT, CC) ==
    \/ NoWait(SS, TT, CC)
    \/ \E s \in SS : DeliveryTimeout(s)

\* producers that send the messages MM on the topics TT, with any context,
\* and do not keep the result
Producers(TT, MM) ==
    \E c \in Ctxs, t \in TT, m \in MM, ok \in BOOLEAN : Send(c, t, m, ok, FALSE)

\* callers of Send, Unsubscribe, Ack and Close that keep the results, at most
\* MaxCalls of them
Callers(TT, MM) ==
    \/ \E c \in Ctxs, t \in TT, m \in MM, ok \in BOOLEAN : Send(c, t, m, ok, TRUE)
    \/ \E t \in TT : Unsubscribe(t)
    \/ \E t \in TT, id \in AckIDs : Ack(t, id)
    \/ \E ok \in BOOLEAN : Close(ok)

\* the system with producers
System(SS, TT, CC, MM) == Producers(TT, MM) \/ Subscriptions(SS, TT, CC)

\* the system with producers and at most MaxFanOut payloads, which fit into
\* the buffer (MaxFanOut <= MsgChanCap), so that no hand-over waits
SystemFew(SS, TT, CC, MM) ==
    /\ Producers(TT, MM) \/ NoWait(SS, TT, CC)
    /\ Len(log') <= MaxFanOut

\* the system with callers that keep the results and at most MaxFanOut
\* payloads
Observed(SS, TT, CC, MM) ==
    /\ Callers(TT, MM) \/ NoWait(SS, TT, CC)
    /\ Len(log') <= MaxFanOut

Next == System(Subs, Topics, Ctxs, MsgInputs)

Spec == Init /\ [][Next]_vars

\* one Subscribe call, one topic, one context, every kind of message
NextOne == System({1}, {"T1"}, {"ctxA"}, MsgInputs)

SpecOne == Init /\ [][NextOne]_vars

\* two Subscribe calls on one topic with one context, as in the tests,
\* producers that send the message of the tests, at most MaxFanOut payloads
NextTwo == SystemFew(Subs, {"T1"}, {"ctxA"}, {TestMessage})

SpecTwo == Init /\ [][NextTwo]_vars

\* The Go scheduler runs every runnable goroutine, and a timer that is armed
\* fires: the watcher and the delivery goroutine take a step whenever one
\* stays possible.  Panics, cancellations and broker events are not forced.
\* In the model the broker emits finitely many payloads, so weak fairness is
\* enough for a select whose done case competes with a ready payload.
NextLive == System({1}, {"T1"}, {"ctxA"}, {TestMessage})

FairSpecOne ==
    /\ Init /\ [][NextLive]_vars
    /\ \A s \in Subs : WF_vars(Watcher(s)) /\ WF_vars(DeliveryStep(s))

\* one Subscribe call and callers that keep the results of their calls, at
\* most MaxFanOut payloads
NextCalls == Observed({1}, {"T1"}, {"ctxA"}, CallInputs)

SpecCalls == Init /\ [][NextCalls]_vars

\* two Subscribe calls on one topic, each with a context of its choice, of
\* which ctxB is never cancelled; at most MaxFanOut payloads
NextCtx == SystemFew(Subs, {"T1"}, Ctxs, {TestMessage}) /\ ~ctxDone'["ctxB"]

SpecCtx == Init /\ [][NextCtx]_vars

\* two Subscribe calls with one context, each on a topic of its choice; at
\* most MaxFanOut payloads
NextTopics == SystemFew(Subs, Topics, {"ctxA"}, {TestMessage})

SpecTopics == Init /\ [][NextTopics]_vars


\* ================================================================== claims

\* the log indices of the messages in a sequence of buffered messages
Indices(q) == [k \in 1..Len(q) |-> q[k].idx]

\* C1: for every successful Subscribe the stream is closed exactly once,
\* whichever way the delivery goroutine returns: never twice, never left open
\* after the goroutine has returned, and not closed while it still runs.
C1_StreamClosedExactlyOnce ==
    \A s \in Subs :
        /\ closeCount[s] <= 1
        /\ (dpc[s] = "exit") <=> (closeCount[s] = 1)
        /\ ~Active(s) => closeCount[s] = 0

C1_Witness == exitBy[1] = "panic" /\ closeCount[1] = 1

C1_WitnessStop == exitBy[1] = "stop" /\ closeCount[1] = 1

C1_WitnessStopSending == exitBy[1] = "stopSending" /\ closeCount[1] = 1

C1_WitnessClosed == exitBy[1] = "closed" /\ closeCount[1] = 1

\* C2: once the context of a successful Subscribe is cancelled, the stream is
\* eventually closed, whatever the delivery goroutine was doing.
C2_CancelEventuallyCloses ==
    \A s \in Subs : (Active(s) /\ ctxDone[ctxOf[s]]) ~> (closeCount[s] = 1)

\* the context is cancelled while the goroutine waits on a full buffer, and
\* the stream has been closed since
C2_Witness ==
    /\ Active(1) /\ ctxDone[ctxOf[1]]
    /\ exitBy[1] = "stopSending" /\ Len(msgChan[1]) = MsgChanCap
    /\ closeCount[1] = 1

\* C3 as claimed: no message published after the cancellation of the context
\* of a subscription is ever placed in its output buffer.
C3_NothingBufferedAfterCancel ==
    \A s \in Subs : \A k \in 1..Len(msgChan[s]) :
        ctxOf[s] \notin log[msgChan[s][k].idx].cancelled

\* C4 as claimed: whenever the delivery goroutine returns because of the stop
\* signal, pubsub.Unsubscribe and pubsub.Close have been called, also when
\* the signal is taken while waiting to hand a message over.
C4_StopExitReleasesPubsub ==
    \A s \in Subs :
        exitBy[s] \in {"stop", "stopSending"} => pubsubUnsub[s] /\ pubsubClosed[s]


\* ---------------------------------------------------------------- delivery
\* the payload with log index i decodes
Decodes(i) == ~UnmarshalFails(log[i].payload)

\* the delivery goroutine of s runs, has taken everything the broker emitted
\* and holds nothing, and the consumer has emptied the stream
Quiet(s) ==
    /\ Active(s) /\ dpc[s] = "select"
    /\ ~ChannelReady(s)
    /\ msgChan[s] = <<>>

\* what the consumer of s got or can still get, in order
Yielded(s) == received[s] \o msgChan[s]

\* C5 as claimed: with one subscription whose buffer has room and whose
\* consumer reads, one successful Send makes the stream yield exactly one
\* Message, whose Body and Metadata equal those of the Message sent.
C5_OneSendOneEqualMessage ==
    \A s \in Subs :
        (Len(emitted[s]) = 1 /\ Decodes(emitted[s][1])) =>
            LET sentMsg == log[emitted[s][1]].orig
            IN /\ Len(Yielded(s)) <= 1
               /\ Quiet(s) =>
                    /\ Len(received[s]) = 1
                    /\ received[s][1].msg.Body = sentMsg.Body
                    /\ received[s][1].msg.Metadata = sentMsg.Metadata

\* every string of the metadata is valid UTF-8
ValidMetadata(md) ==
    md.nil \/ \A k \in DOMAIN md.m : ToValidUTF8(k) = k /\ ToValidUTF8(md.m[k]) = md.m[k]

\* the part of C5 that the code keeps: exactly one Message, the Body equal,
\* the Metadata equal when its strings are valid UTF-8
C5_OneSendOneMessageValidUTF8 ==
    \A s \in Subs :
        (Len(emitted[s]) = 1 /\ Decodes(emitted[s][1])) =>
            LET sentMsg == log[emitted[s][1]].orig
            IN /\ Len(Yielded(s)) <= 1
               /\ Quiet(s) =>
                    /\ Len(received[s]) = 1
                    /\ received[s][1].msg.Body = sentMsg.Body
                    /\ ValidMetadata(sentMsg.Metadata) =>
                         received[s][1].msg.Metadata = sentMsg.Metadata

\* s took a step on its buffer or its pubsub channel
Moved(s) ==
    \/ msgChan'[s] # msgChan[s]
    \/ received'[s] # received[s]
    \/ rcvd'[s] # rcvd[s]

\* C6: a Send heard by two subscriptions on one topic is delivered to both
\* streams, each once, and a step of one subscription on its channel or
\* buffer leaves the channel, the buffer and the stream of the other alone.
C6_FanOutIndependent ==
    /\ [](\A s \in Subs : \A r \in Subs \ {s} : \A k \in 1..Len(emitted[s]) :
            LET i == emitted[s][k]
            IN (/\ topicOf[s] = topicOf[r]
                /\ \E j \in 1..Len(emitted[r]) : emitted[r][j] = i
                /\ Decodes(i) /\ i \notin dropped[s]
                /\ Quiet(s))
               => Cardinality({n \in 1..Len(received[s]) : received[s][n].idx = i}) = 1)
    /\ [][\A s \in Subs : \A r \in Subs \ {s} :
            Moved(s) => /\ msgChan'[r] = msgChan[r]
                        /\ received'[r] = received[r]
                        /\ rcvd'[r] = rcvd[r]
                        /\ cur'[r] = cur[r]]_vars

\* one message was sent and both consumers have received it
C6_Witness ==
    /\ Len(log) = 1 /\ emitted[1] = <<1>> /\ emitted[2] = <<1>>
    /\ Indices(received[1]) = <<1>> /\ Indices(received[2]) = <<1>>
    /\ Quiet(1) /\ Quiet(2)

\* C7: a payload that fails to decode puts nothing in the buffer, does not
\* close the stream and does not end the goroutine, and the valid payloads
\* around it are delivered as usual.
C7_DecodeFailureSkipped ==
    /\ [][\A s \in Subs :
            (/\ dpc[s] = "select"
             /\ rcvd'[s] = rcvd[s] + 1
             /\ ~Decodes(emitted[s][rcvd'[s]]))
            => /\ msgChan'[s] = msgChan[s]
               /\ closeCount'[s] = closeCount[s]
               /\ dpc'[s] = "select"
               /\ cur'[s] = cur[s]]_vars
    /\ [](\A s \in Subs :
            (Quiet(s) /\ dropped[s] = {})
            => Indices(received[s]) = SelectSeq(emitted[s], Decodes))

\* a payload that did not decode, a valid one emitted after it and received,
\* the stream open
C7_Witness ==
    /\ Len(emitted[1]) >= 2
    /\ ~Decodes(emitted[1][1])
    /\ Indices(received[1]) = <<emitted[1][2]>>
    /\ closeCount[1] = 0 /\ dpc[1] = "select"

\* the payload with log index i was not given up on by s
Kept(s, i) == i \notin dropped[s]

\* C8: a hand-over that times out happens with the buffer full, leaves the
\* buffer as it is and the stream open, and puts the goroutine back at its
\* main select; the dropped message is never delivered, the following
\* payloads are.
C8_TimeoutDrops ==
    /\ [][\A s \in Subs :
            dropped'[s] # dropped[s]
            => /\ dpc[s] = "send" /\ Len(msgChan[s]) = MsgChanCap
               /\ dropped'[s] = dropped[s] \cup {cur[s].idx}
               /\ msgChan'[s] = msgChan[s]
               /\ received'[s] = received[s]
               /\ closeCount'[s] = closeCount[s]
               /\ dpc'[s] = "select"]_vars
    /\ [](\A s \in Subs :
            /\ \A k \in 1..Len(Yielded(s)) : Yielded(s)[k].idx \notin dropped[s]
            /\ cur[s].idx \notin dropped[s]
            /\ Quiet(s) =>
                 Indices(received[s]) =
                   SelectSeq(emitted[s], LAMBDA i : Decodes(i) /\ Kept(s, i)))

\* the second message was dropped, the third, emitted after it, was delivered
C8_Witness ==
    /\ Len(emitted[1]) = 3
    /\ dropped[1] = {emitted[1][2]}
    /\ Indices(received[1]) = <<emitted[1][1], emitted[1][3]>>
    /\ closeCount[1] = 0

C10_BufferBounded == \A s \in Subs : Len(msgChan[s]) <= MsgChanCap

\* the buffer is full, nothing was read, and the goroutine holds one more
\* message while the broker has yet another ready
C10_Witness ==
    /\ Len(msgChan[1]) = MsgChanCap /\ received[1] = <<>>
    /\ dpc[1] = "send" /\ ChannelReady(1)

\* C11: Subscribe returns a stream only when the broker has confirmed the
\* subscription; a Subscribe whose confirmation failed has returned an error
\* and no stream, has closed its pubsub, and has started neither the
\* delivery goroutine nor the watcher goroutine.
C11_SubscribeFailureStartsNothing ==
    \A s \in Subs :
        /\ Active(s) => subConfirmed[s]
        /\ subSt[s] = "failed" =>
              /\ ~subConfirmed[s]
              /\ pubsubClosed[s]
              /\ dpc[s] = "none" /\ wpc[s] = "none"
              /\ closeCount[s] = 0 /\ ~done[s]
              /\ emitted[s] = <<>> /\ Yielded(s) = <<>>

\* the confirmation failed although the context was not cancelled
C11_Witness ==
    /\ subSt[1] = "failed" /\ ~ctxDone[ctxOf[1]]
    /\ pubsubClosed[1] /\ dpc[1] = "none" /\ wpc[1] = "none"

\* ------------------------------------------------------------------- calls
\* the step is a call of op whose result the caller keeps
CallStep(op) == ret'.count[op] = ret.count[op] + 1

\* the last element of a sequence that is not empty
Last(q) == q[Len(q)]

C13_SendErrors ==
    /\ [](ret.op = "Send" =>
            /\ ret.attempts <= 1
            /\ (ret.err = "marshal") <=> MarshalFails(ret.enc)
            /\ (ret.err = "marshal") <=> (ret.attempts = 0)
            /\ ret.err \in {"marshal", "publish", "nil"})
    /\ [][CallStep("Send") =>
            /\ ret'.err # "nil" => log' = log /\ emitted' = emitted
            /\ (Listeners(ret'.topic) # {} /\ log' = log) => ret'.err # "nil"
            /\ log' # log =>
                  /\ Len(log') = Len(log) + 1
                  /\ Last(log').orig = ret'.arg
                  /\ Last(log').payload = Marshal(ret'.enc)
                  /\ Last(log').topic = ret'.topic]_vars
    /\ [][(log' # log /\ Last(log').payload.json) =>
            CallStep("Send") /\ ret'.err = "nil"]_vars

\* the publish of a Send failed while a subscription was listening, and the
\* subscription has got nothing
C13_Witness ==
    /\ ret.op = "Send" /\ ret.err = "publish" /\ ret.attempts = 1
    /\ ~clientClosed /\ Quiet(1) /\ 1 \in Listeners(ret.topic)
    /\ log = <<>> /\ received[1] = <<>>

\* the encoding of a Send failed
C13_WitnessMarshal ==
    /\ ret.op = "Send" /\ ret.err = "marshal" /\ ret.attempts = 0
    /\ Quiet(1) /\ log = <<>>

\* C14: Unsubscribe returns no error and changes nothing: the subscriptions,
\* their streams, their stop signals and the broker are as before, a
\* subscription that was listening still is, and the messages sent
\* afterwards are delivered.
C14_UnsubscribeChangesNothing ==
    /\ [][CallStep("Unsubscribe") =>
            /\ ret'.err = "nil"
            /\ UNCHANGED <<ctxDone, log, callVars, brokerVars, taskVars, received,
                           clientClosed, released>>
            /\ \A t \in Topics : Listeners(t)' = Listeners(t)]_vars
    /\ [](\A s \in Subs :
            /\ (Active(s) /\ dpc[s] # "exit" /\ ~chanClosed[s])
               => s \in Listeners(topicOf[s])
            /\ (Quiet(s) /\ dropped[s] = {})
               => Indices(received[s]) = SelectSeq(emitted[s], Decodes)
            /\ closeCount[s] = 1 => dpc[s] = "exit")

\* a message sent after an Unsubscribe on the topic of the subscription was
\* received
C14_Witness ==
    /\ ret.op = "Send" /\ ret.err = "nil" /\ ret.topic = topicOf[1]
    /\ ret.count["Unsubscribe"] = 1 /\ ret.count["Send"] = 1
    /\ Active(1) /\ closeCount[1] = 0 /\ ~done[1]
    /\ Len(received[1]) = 1 /\ log[received[1][1].idx].orig = ret.arg

\* ------------------------------------------------------------ independence
\* the variables of subscription r are left as they are
Untouched(r) ==
    /\ subSt'[r] = subSt[r] /\ topicOf'[r] = topicOf[r] /\ ctxOf'[r] = ctxOf[r]
    /\ emitted'[r] = emitted[r] /\ rcvd'[r] = rcvd[r]
    /\ chanClosed'[r] = chanClosed[r]
    /\ pubsubUnsub'[r] = pubsubUnsub[r] /\ pubsubClosed'[r] = pubsubClosed[r]
    /\ done'[r] = done[r] /\ wpc'[r] = wpc[r] /\ dpc'[r] = dpc[r]
    /\ exitBy'[r] = exitBy[r] /\ cur'[r] = cur[r]
    /\ msgChan'[r] = msgChan[r] /\ closeCount'[r] = closeCount[r]
    /\ dropped'[r] = dropped[r] /\ received'[r] = received[r]

\* s is a running subscription the broker still serves
Served(s) == Active(s) /\ dpc[s] # "exit" /\ ~chanClosed[s]

\* C15: the cancellation of a context changes nothing but the context, and
\* the stop signal of a subscription is set only when its own context is
\* cancelled: a subscription whose context is not cancelled has no stop
\* signal, a running watcher, a stream no stop has closed, keeps being
\* served by the broker and receives what is published, also by Sends made
\* while the other context is cancelled.
C15_CancelAffectsOnlyItsSubscriptions ==
    /\ [][ctxDone' # ctxDone =>
            UNCHANGED <<log, callVars, brokerVars, taskVars, received, clientVars>>]_vars
    /\ [][\A s \in Subs :
            (done'[s] # done[s] \/ (wpc[s] = "wait" /\ wpc'[s] # "wait"))
            => /\ ctxDone[ctxOf[s]]
               /\ \A r \in Subs \ {s} : Untouched(r)]_vars
    /\ [](\A s \in Subs :
            (Active(s) /\ ~ctxDone[ctxOf[s]]) =>
                /\ ~done[s] /\ wpc[s] = "wait"
                /\ exitBy[s] \notin {"stop", "stopSending"}
                /\ Served(s) => s \in Listeners(topicOf[s])
                /\ (Quiet(s) /\ dropped[s] = {})
                   => Indices(received[s]) = SelectSeq(emitted[s], Decodes))

\* ctxA is cancelled and its subscription stopped; the subscription with
\* ctxB has received a message sent after the cancellation
C15_Witness ==
    /\ Active(1) /\ ctxOf[1] = "ctxA" /\ Active(2) /\ ctxOf[2] = "ctxB"
    /\ ctxDone["ctxA"] /\ exitBy[1] = "stop" /\ closeCount[1] = 1
    /\ closeCount[2] = 0 /\ ~done[2]
    /\ Len(log) = 1 /\ log[1].cancelled = {"ctxA"} /\ Decodes(1)
    /\ emitted[1] = <<>> /\ Indices(received[2]) = <<1>>

\* the delivery goroutine of s returns because of a panic
PanicStep(s) == exitBy'[s] = "panic" /\ exitBy[s] # "panic"

\* the delivery goroutine of s returns because the pubsub channel is closed
ClosedStep(s) == exitBy'[s] = "closed" /\ exitBy[s] # "closed"

\* C16: a panic in the delivery goroutine of a subscription ends that
\* goroutine and closes its stream, exactly as the closure of the pubsub
\* channel does (nothing unsubscribed, nothing released, the buffer kept);
\* the process goes on: every other subscription, the broker and the client
\* are untouched, and the other subscriptions keep receiving what is sent.
C16_PanicIsContained ==
    /\ [][\A s \in Subs :
            (PanicStep(s) \/ ClosedStep(s)) =>
                /\ dpc'[s] = "exit" /\ closeCount'[s] = closeCount[s] + 1
                /\ cur'[s] = NoMsg
                /\ msgChan'[s] = msgChan[s] /\ received'[s] = received[s]
                /\ pubsubUnsub'[s] = pubsubUnsub[s]
                /\ pubsubClosed'[s] = pubsubClosed[s]
                /\ done'[s] = done[s] /\ wpc'[s] = wpc[s]
                /\ \A r \in Subs \ {s} : Untouched(r)
                /\ UNCHANGED <<ctxDone, log, clientVars>>]_vars
    /\ [](\A s \in Subs :
            /\ exitBy[s] = "panic" => closeCount[s] = 1 /\ dpc[s] = "exit"
            /\ (Served(s) /\ ~done[s]) => s \in Listeners(topicOf[s])
            /\ (Quiet(s) /\ dropped[s] = {})
               => Indices(received[s]) = SelectSeq(emitted[s], Decodes))

\* the goroutine of the first subscription has panicked; a message sent
\* after that has reached the second subscription only
C16_Witness ==
    /\ Active(1) /\ Active(2) /\ topicOf[1] = topicOf[2]
    /\ exitBy[1] = "panic" /\ closeCount[1] = 1 /\ ~chanClosed[1]
    /\ Len(log) = 1 /\ Decodes(1) /\ emitted[1] = <<>>
    /\ Indices(received[2]) = <<1>> /\ closeCount[2] = 0

\* C17: the stop signal of a subscription is set at most once, by its
\* watcher and only after the context of its Subscribe call was cancelled:
\* the step that sets it is no call of Send, Unsubscribe, Ack or Close, no
\* broker event and no return of the delivery goroutine, and the signal is
\* never set while the context is not cancelled.
C17_StopOnlyByCancellation ==
    /\ [](\A s \in Subs :
            done[s] => Active(s) /\ ctxDone[ctxOf[s]] /\ wpc[s] = "exit")
    /\ [][\A s \in Subs :
            /\ done[s] => done'[s]
            /\ wpc[s] = "exit" => wpc'[s] = "exit"
            /\ (done'[s] /\ ~done[s]) =>
                  /\ wpc[s] = "wait" /\ wpc'[s] = "exit"
                  /\ ctxDone[ctxOf[s]]
                  /\ UNCHANGED <<ctxDone, log, callVars, brokerVars, dpc, exitBy,
                                 cur, msgChan, closeCount, dropped, received,
                                 clientVars>>]_vars
    /\ [][(\E op \in Ops : CallStep(op)) \/ dpc' # dpc \/ chanClosed' # chanClosed
            \/ log' # log
            => done' = done]_vars

\* the queue was closed, the context cancelled after that, and the watcher
\* has set the stop signal
C17_Witness ==
    /\ ret.op = "Close" /\ clientClosed
    /\ Active(1) /\ ctxDone[ctxOf[1]] /\ done[1] /\ wpc[1] = "exit"
    /\ dpc[1] = "select"

\* C18: a subscription gets, from the broker and on its stream, only
\* payloads that were published on the topic it subscribed to.
C18_OnlyOwnTopic ==
    \A s \in Subs :
        /\ \A k \in 1..Len(emitted[s]) : log[emitted[s][k]].topic = topicOf[s]
        /\ \A k \in 1..Len(Yielded(s)) : log[Yielded(s)[k].idx].topic = topicOf[s]
        /\ cur[s].idx # 0 => log[cur[s].idx].topic = topicOf[s]

\* two subscriptions on different topics; a message sent on the topic of the
\* second was received by the second and not emitted to the first, which
\* was listening
C18_Witness ==
    /\ Active(1) /\ Active(2) /\ topicOf[1] # topicOf[2]
    /\ Len(log) = 1 /\ log[1].topic = topicOf[2] /\ Decodes(1)
    /\ Quiet(1) /\ ~chanClosed[1] /\ emitted[1] = <<>> /\ received[1] = <<>>
    /\ Indices(received[2]) = <<1>>

C20_GoroutinesPersist ==
    /\ [][\A s \in Subs :
            (Active(s) /\ ~ctxDone[ctxOf[s]]) =>
                /\ wpc[s] = "wait" /\ wpc'[s] = "wait"
                /\ ~done[s] /\ ~done'[s]
                /\ (~chanClosed[s] /\ dpc[s] # "exit") =>
                      (dpc'[s] # "exit" \/ exitBy'[s] = "panic")]_vars
    /\ [](\A s \in Subs :
            (Active(s) /\ ~ctxDone[ctxOf[s]] /\ ~chanClosed[s] /\ exitBy[s] # "panic")
            => wpc[s] = "wait" /\ dpc[s] \in {"select", "send"} /\ closeCount[s] = 0)

\* the consumer has read nothing, the buffer is full, hand-overs have timed
\* out, and both goroutines still run
C20_Witness ==
    /\ Active(1) /\ ~ctxDone[ctxOf[1]] /\ ~chanClosed[1]
    /\ received[1] = <<>> /\ Len(msgChan[1]) = MsgChanCap
    /\ Cardinality(dropped[1]) = 2 /\ ~ChannelReady(1)
    /\ wpc[1] = "wait" /\ dpc[1] = "select" /\ closeCount[1] = 0

\* ---------------------------------------------------------------- encoding
\* C21 as claimed: every Message the delivery goroutine decodes has the Body
\* and the Metadata of the Message passed to Send when its Body is not
\* empty, and its ID and Timestamp when the caller had set them.
C21_DecodeGivesBackWhatWasSent ==
    \A s \in Subs : \A k \in 1..Len(Yielded(s)) :
        LET d == Yielded(s)[k].msg
            m == log[Yielded(s)[k].idx].orig
        IN m.Body.b # <<>> =>
             /\ d.Body = m.Body
             /\ d.Metadata = m.Metadata
             /\ m.ID # <<>> => d.ID = m.ID
             /\ ~IsZero(m.Timestamp) => d.Timestamp.wall = m.Timestamp.wall

\* the part of C21 that the code keeps: the same for the Messages whose
\* metadata strings are valid UTF-8
C21_RoundTripValidUTF8 ==
    \A s \in Subs : \A k \in 1..Len(Yielded(s)) :
        LET d == Yielded(s)[k].msg
            m == log[Yielded(s)[k].idx].orig
        IN (m.Body.b # <<>> /\ ValidMetadata(m.Metadata)) =>
             /\ d.Body = m.Body
             /\ d.Metadata = m.Metadata
             /\ m.ID # <<>> => d.ID = m.ID
             /\ ~IsZero(m.Timestamp) => d.Timestamp.wall = m.Timestamp.wall

\* C22: Ack returns no error for every topic and message ID, also an ID no
\* message has, and changes nothing: the subscriptions, the buffers, the
\* streams, the broker and the client are as before.
C22_AckChangesNothing ==
    /\ [](ret.op = "Ack" => ret.err = "nil")
    /\ [][CallStep("Ack") =>
            /\ ret'.op = "Ack" /\ ret'.err = "nil"
            /\ UNCHANGED <<ctxDone, log, callVars, brokerVars, taskVars, received,
                           clientClosed, released>>
            /\ \A t \in Topics : Listeners(t)' = Listeners(t)]_vars

\* Ack was called with the ID of the message that waits in the buffer, and
\* the message is still there
C22_Witness ==
    /\ ret.op = "Ack" /\ ret.err = "nil"
    /\ Len(msgChan[1]) = 1 /\ msgChan[1][1].msg.ID = ret.arg.ID
    /\ Active(1) /\ closeCount[1] = 0

\* Ack was called with an ID that no message has
C22_WitnessNeverSent ==
    /\ ret.op = "Ack" /\ ret.err = "nil" /\ ret.arg.ID = <<122>>
    /\ Len(log) = 1 /\ Decodes(1) /\ Indices(received[1]) = <<1>>

\* ------------------------------------------------------------------- stop
\* C23 as claimed: once the stop signal of a subscription is set, its
\* delivery goroutine takes no further payload from the pubsub channel and
\* puts no further Message into the buffer, also when a payload is ready or
\* the buffer has room.
C23_StopObservedAtNextSelect ==
    [][\A s \in Subs :
        (done[s] /\ dpc[s] \in {"select", "send"})
        => /\ rcvd'[s] = rcvd[s]
           /\ Len(msgChan'[s]) <= Len(msgChan[s])]_vars

\* C24: a closed stream is never written to and stays closed: after
\* close(msgChan) the buffer only shrinks by what the consumer takes, what
\* the consumer got or can still get never grows, the goroutine has returned
\* and takes nothing more from the broker; the closing step writes nothing.
C24_NoWriteAfterClose ==
    [][\A s \in Subs :
        /\ closeCount[s] >= 1 =>
              /\ closeCount'[s] = closeCount[s]
              /\ dpc[s] = "exit" /\ dpc'[s] = "exit"
              /\ rcvd'[s] = rcvd[s]
              /\ \/ msgChan'[s] = msgChan[s]
                 \/ msgChan[s] # <<>> /\ msgChan'[s] = Tail(msgChan[s])
              /\ received'[s] \o msgChan'[s] = received[s] \o msgChan[s]
        /\ closeCount'[s] > closeCount[s] => msgChan'[s] = msgChan[s]]_vars

\* the stream was closed by the stop with a payload ready at the broker,
\* which was never taken; the consumer has read what was buffered
C24_Witness ==
    /\ exitBy[1] = "stop" /\ closeCount[1] = 1
    /\ ChannelReady(1) /\ Decodes(emitted[1][rcvd[1] + 1])
    /\ msgChan[1] = <<>> /\ Len(received[1]) = 1

\* the goroutine of s returns from the hand-over because of the stop signal
StopSendingStep(s) == exitBy'[s] = "stopSending" /\ exitBy[s] # "stopSending"

\* C25: when the delivery goroutine takes the stop signal while it waits to
\* hand a message over, it returns with the buffer as it was and the stream
\* is closed; the message it held never reaches the stream.
C25_StopWhileSendingDropsMessage ==
    /\ [][\A s \in Subs :
            StopSendingStep(s) =>
                /\ dpc[s] = "send" /\ done[s]
                /\ msgChan'[s] = msgChan[s]
                /\ received'[s] = received[s]
                /\ closeCount'[s] = closeCount[s] + 1
                /\ dpc'[s] = "exit" /\ cur'[s] = NoMsg]_vars
    /\ [](\A s \in Subs :
            exitBy[s] = "stopSending" =>
                /\ closeCount[s] = 1
                /\ rcvd[s] >= 1
                /\ \A k \in 1..Len(Yielded(s)) :
                      Yielded(s)[k].idx # emitted[s][rcvd[s]])

\* the stop was taken in the hand-over of the second message; the consumer
\* has then emptied the closed stream and got the first message only
C25_Witness ==
    /\ exitBy[1] = "stopSending" /\ closeCount[1] = 1
    /\ rcvd[1] = 2 /\ Decodes(emitted[1][2])
    /\ msgChan[1] = <<>> /\ Indices(received[1]) = <<emitted[1][1]>>
    /\ dropped[1] = {}

\* ------------------------------------------------------------------ tasks
\* C26: a Subscribe call has a delivery goroutine and a watcher goroutine
\* exactly when it succeeded, started by its own Subscribe step and by no
\* other; only the delivery goroutine of a subscription writes to its
\* stream, on its own stop signal it stops, a step of one goroutine leaves
\* the other subscriptions alone, and a goroutine that has returned stays
\* returned.
C26_OneTaskPairPerSubscribe ==
    /\ [](\A s \in Subs :
            /\ Active(s) <=> dpc[s] # "none"
            /\ Active(s) <=> wpc[s] # "none"
            /\ closeCount[s] >= 1 => dpc[s] = "exit"
            /\ exitBy[s] \in {"stop", "stopSending"} => done[s])
    /\ [][\A s \in Subs :
            /\ (dpc[s] = "none" /\ dpc'[s] # "none") =>
                  /\ subSt[s] = "idle" /\ subSt'[s] = "active"
                  /\ dpc'[s] = "select" /\ wpc[s] = "none" /\ wpc'[s] = "wait"
                  /\ msgChan'[s] = <<>> /\ ~done'[s] /\ closeCount'[s] = 0
                  /\ \A r \in Subs \ {s} : Untouched(r)
            /\ dpc[s] = "exit" => dpc'[s] = "exit"
            /\ wpc[s] = "exit" => wpc'[s] = "exit"
            /\ dpc[s] # "none" => dpc'[s] # "none"
            /\ wpc[s] # "none" => wpc'[s] # "none"
            /\ Len(msgChan'[s]) > Len(msgChan[s]) =>
                  /\ dpc[s] = "send" /\ dpc'[s] = "select"
                  /\ msgChan'[s] = Append(msgChan[s], cur[s])
                  /\ \A r \in Subs \ {s} : Untouched(r)]_vars

\* both subscriptions have their goroutines; the first delivery goroutine
\* has returned after a panic, the second has delivered a message since
C26_Witness ==
    /\ Active(1) /\ Active(2)
    /\ dpc[1] = "exit" /\ exitBy[1] = "panic" /\ wpc[1] = "wait"
    /\ dpc[2] = "select" /\ wpc[2] = "wait"
    /\ Len(log) = 1 /\ emitted[1] = <<>> /\ Indices(msgChan[2]) = <<1>>

\* the watcher of s closes done
WatcherStep(s) == done'[s] /\ ~done[s]

\* C27: on a closed pubsub channel the delivery goroutine returns and
\* closes the stream, the pubsub is neither unsubscribed nor closed and the
\* watcher goes on waiting; when the context is cancelled after the
\* goroutine has returned, because of the closure or of a panic, the
\* watcher sets the stop signal and nothing else changes: the stream is not
\* closed again.
C27_BrokerClosureAndLateCancel ==
    /\ [][\A s \in Subs :
            /\ ClosedStep(s) =>
                  /\ chanClosed[s]
                  /\ dpc'[s] = "exit" /\ closeCount'[s] = closeCount[s] + 1
                  /\ pubsubUnsub'[s] = pubsubUnsub[s]
                  /\ pubsubClosed'[s] = pubsubClosed[s]
                  /\ wpc'[s] = wpc[s] /\ done'[s] = done[s]
            /\ (WatcherStep(s) /\ dpc[s] = "exit") =>
                  /\ wpc[s] = "wait" /\ wpc'[s] = "exit"
                  /\ UNCHANGED <<ctxDone, log, callVars, brokerVars, dpc, exitBy,
                                 cur, msgChan, closeCount, dropped, received,
                                 clientVars>>]_vars
    /\ [](\A s \in Subs :
            exitBy[s] \in {"closed", "panic"} =>
                /\ ~pubsubUnsub[s] /\ ~pubsubClosed[s]
                /\ closeCount[s] = 1
                /\ wpc[s] = (IF done[s] THEN "exit" ELSE "wait"))

\* the pubsub channel was closed and the goroutine returned; the context
\* was cancelled afterwards and the watcher has set the stop signal
C27_Witness ==
    /\ exitBy[1] = "closed" /\ chanClosed[1] /\ closeCount[1] = 1
    /\ ctxDone[ctxOf[1]] /\ done[1] /\ wpc[1] = "exit"
    /\ ~pubsubUnsub[1] /\ ~pubsubClosed[1]

====
